---- MODULE Spec2Model ----
(***************************************************************************)
(* A model of the syslog adapter of logspout (adapters/syslog/syslog.go):  *)
(* the retry policy retryExp, the Stream loop of an Adapter with its       *)
(* failure handling (retry, retryTemporary, reconnect), and the            *)
(* construction of Adapters by NewSyslogAdapter.                           *)
(***************************************************************************)
EXTENDS Integers, Sequences, FiniteSets, TLC

\* ------------------------------------------------------------------ bounds

\* Largest retry budget handed to retryExp in the stand-alone runs of the
\* retry policy (SpecRetryExp).
MaxTries == 41

\* ------------------------------------------- 64-bit arithmetic (int64)

\* time.Duration is an int64 count of nanoseconds.  A value is kept as
\* little-endian limbs of LimbBase, DurationLimbs of them for the 64 bits.
LimbBase == 256
LimbBits == 8
DurationLimbs == 8
\* Limbs enough to hold 10ms x 2^n exactly (no wrap) for every n the model
\* reaches: the mathematical value the delay is compared with.
WideLimbs == 16

\* time.Millisecond, in nanoseconds.
Millisecond == 1000000

RECURSIVE Pow2(_)
Pow2(n) == IF n = 0 THEN 1 ELSE 2 * Pow2(n - 1)

\* 1 << try on a value of `limbs` limbs: the bit falls off the top when
\* try is not below the width (Go defines the shift, the result is 0).
ShiftLeftOne(try, limbs) ==
    [i \in 1..limbs |->
        IF try < limbs * LimbBits /\ i = (try \div LimbBits) + 1
        THEN Pow2(try % LimbBits)
        ELSE 0]

RECURSIVE MulFrom(_, _, _, _)
\* limbs i.. of x * c + carry, the carry out of the top limb dropped
\* (wrap-around of the fixed-width product).
MulFrom(x, c, i, carry) ==
    IF i > Len(x) THEN << >>
    ELSE LET t == x[i] * c + carry
         IN  << t % LimbBase >> \o MulFrom(x, c, i + 1, t \div LimbBase)

Mul(x, c) == MulFrom(x, c, 1, 0)

\* Sign extension of a two's-complement value to more limbs.
IsNegative(x) == x[Len(x)] >= LimbBase \div 2

SignExtend(x, limbs) ==
    [i \in 1..limbs |->
        IF i <= Len(x) THEN x[i]
        ELSE IF IsNegative(x) THEN LimbBase - 1 ELSE 0]

RECURSIVE LimbsLess(_, _, _)
\* unsigned comparison of limbs 1..i
LimbsLess(x, y, i) ==
    IF i = 0 THEN FALSE
    ELSE IF x[i] # y[i] THEN x[i] < y[i]
    ELSE LimbsLess(x, y, i - 1)

\* d1 < d2 as signed durations of the same width.
DurationLess(d1, d2) ==
    IF IsNegative(d1) # IsNegative(d2) THEN IsNegative(d1)
    ELSE LimbsLess(d1, d2, Len(d1))

\* (1 << try) * 10 * time.Millisecond, evaluated in int64.
Backoff(try) ==
    Mul(Mul(ShiftLeftOne(try, DurationLimbs), 10), Millisecond)

\* 10ms x 2^n in nanoseconds as a mathematical integer.
ExactBackoff(n) ==
    Mul(Mul(ShiftLeftOne(n, WideLimbs), 10), Millisecond)

\* ------------------------------------------------ unsigned words (uint)

\* uint is a 64-bit word on the platforms logspout is built for; a value is
\* kept as UintLimbs little-endian limbs of LimbBase.
UintLimbs == 8

RECURSIVE LimbsOf(_, _)
\* the k low limbs of the natural number n
LimbsOf(n, k) ==
    IF k = 0 THEN << >>
    ELSE << n % LimbBase >> \o LimbsOf(n \div LimbBase, k - 1)

RECURSIVE NegateFrom(_, _, _)
\* limbs i.. of the two's complement of x: the complement of each limb,
\* plus one, the carry out of the top limb dropped.
NegateFrom(x, i, carry) ==
    IF i > Len(x) THEN << >>
    ELSE LET t == (LimbBase - 1 - x[i]) + carry
         IN  << t % LimbBase >> \o NegateFrom(x, i + 1, t \div LimbBase)

\* uint(count) of an int count: the word of count read as unsigned, which
\* is count for a count that is not negative and 2^64 + count for a
\* negative one.
Uint(count) ==
    IF count >= 0 THEN LimbsOf(count, UintLimbs)
    ELSE NegateFrom(LimbsOf(0 - count, UintLimbs), 1, 1)

\* x > y of two uint
UintGreater(x, y) == LimbsLess(y, x, UintLimbs)

\* ------------------------------------------------------------- retryExp

Nil == [nil |-> TRUE]

\* The locals of one activation of retryExp: try, tries (a uint), the last
\* err, the place in the loop (at: "fun" before the call of fun, "sleep" before
\* time.Sleep, "return" after the return), and what it did so far: the
\* number of invocations of fun and the durations slept.
retryExpEnter(tries) ==
    [try |-> 0, tries |-> tries, err |-> Nil, at |-> "fun",
     calls |-> 0, sleeps |-> << >>]

\* faulty variant: the budget is compared with >=, one invocation too few
retryExpFunOffByOne(f, err) ==
    IF err = Nil
    THEN [f EXCEPT !.err = Nil, !.at = "return", !.calls = @ + 1]
    ELSE IF ~UintGreater(f.tries, Uint(f.try + 1))
         THEN [f EXCEPT !.try = @ + 1, !.err = err, !.at = "return",
                        !.calls = @ + 1]
         ELSE [f EXCEPT !.try = @ + 1, !.err = err, !.at = "sleep",
                        !.calls = @ + 1]

\* faulty variant: the budget is compared before try is counted up, one
\* invocation too many
retryExpFunOneMore(f, err) ==
    IF err = Nil
    THEN [f EXCEPT !.err = Nil, !.at = "return", !.calls = @ + 1]
    ELSE IF UintGreater(Uint(f.try), f.tries)
         THEN [f EXCEPT !.try = @ + 1, !.err = err, !.at = "return",
                        !.calls = @ + 1]
         ELSE [f EXCEPT !.try = @ + 1, !.err = err, !.at = "sleep",
                        !.calls = @ + 1]

\* One pass of the loop from the call of fun, which returned err, to the
\* return or to the sleep.
retryExpFun(f, err) ==
    IF err = Nil
    THEN [f EXCEPT !.err = Nil, !.at = "return", !.calls = @ + 1]
    ELSE IF UintGreater(Uint(f.try + 1), f.tries)
         THEN [f EXCEPT !.try = @ + 1, !.err = err, !.at = "return",
                        !.calls = @ + 1]
         ELSE [f EXCEPT !.try = @ + 1, !.err = err, !.at = "sleep",
                        !.calls = @ + 1]

\* time.Sleep((1 << try) * 10 * time.Millisecond), then back to the call.
retryExpSleep(f) ==
    [f EXCEPT !.at = "fun", !.sleeps = Append(@, Backoff(f.try))]

\* -------------------------------------------------------------- strings

\* A Go string or []byte is a sequence of one-character strings.
Digits == << "0", "1", "2", "3", "4", "5", "6", "7", "8", "9" >>

RECURSIVE Itoa(_)
\* strconv.Itoa / fmt's %d of a non-negative int
Itoa(n) == IF n < 10 THEN << Digits[n + 1] >>
           ELSE Itoa(n \div 10) \o << Digits[(n % 10) + 1] >>

\* fmt's %.Ns: at most n characters of s
Precision(s, n) == IF Len(s) <= n THEN s ELSE SubSeq(s, 1, n)

\* strings.TrimRight(s, "\r\n")
RECURSIVE TrimRightCRLF(_)
TrimRightCRLF(s) ==
    IF Len(s) > 0 /\ s[Len(s)] \in {"\r", "\n"}
    THEN TrimRightCRLF(SubSeq(s, 1, Len(s) - 1))
    ELSE s

\* ------------------------------------------------------------- messages

\* A router.Message with a nil Container.
NilContainer == [nilContainer |-> TRUE]

\* Message.Priority: syslog.LOG_USER|LOG_INFO, LOG_USER|LOG_ERR,
\* LOG_DAEMON|LOG_INFO
LOG_USER == 8
LOG_DAEMON == 24
LOG_INFO == 6
LOG_ERR == 3

\* faulty variant: only the source stdout is told apart
PriorityStdoutOnly(m) ==
    CASE m.Source = "stdout" -> LOG_USER + LOG_INFO
      [] OTHER -> LOG_DAEMON + LOG_INFO

\* Message.Priority; a facility is a multiple of 8 and a severity is below
\* 8, so that facility|severity is their sum.
Priority(m) ==
    CASE m.Source = "stdout" -> LOG_USER + LOG_INFO
      [] m.Source = "stderr" -> LOG_USER + LOG_ERR
      [] OTHER -> LOG_DAEMON + LOG_INFO

\* Message.Timestamp: Time.Format(time.RFC3339); the records of the model
\* were emitted in the first ten seconds of 1970-01-01 UTC, Time counts the
\* seconds.
Timestamp(m) ==
    << "1", "9", "7", "0", "-", "0", "1", "-", "0", "1", "T", "0", "0", ":", "0", "0", ":", "0" >> \o Itoa(m.Time) \o << "Z" >>

\* ------------------------------------------------------- text/template

\* The index of the first "}}" of text at or after i, 0 when there is none.
RECURSIVE CloseAt(_, _)
CloseAt(text, i) ==
    IF i + 1 > Len(text) THEN 0
    ELSE IF text[i] = "}" /\ text[i + 1] = "}" THEN i
    ELSE CloseAt(text, i + 1)

\* template.Parse from character i: the nodes of the template, a text node
\* per character outside the actions and an action node per {{...}}; an
\* action that is not closed gives a node that is an error.
RECURSIVE ParseFrom(_, _)
ParseFrom(text, i) ==
    IF i > Len(text) THEN << >>
    ELSE IF i + 1 <= Len(text) /\ text[i] = "{" /\ text[i + 1] = "{"
    THEN LET j == CloseAt(text, i + 2)
         IN  IF j = 0 THEN << [unclosed |-> TRUE] >>
             ELSE << [action |-> SubSeq(text, i + 2, j - 1)] >>
                  \o ParseFrom(text, j + 2)
    ELSE << [text |-> text[i]] >> \o ParseFrom(text, i + 1)

\* template.New("syslog").Parse(tmplStr): (tmpl, err)
Parse(text) ==
    LET nodes == ParseFrom(text, 1)
    IN  IF \E k \in 1..Len(nodes) : "unclosed" \in DOMAIN nodes[k]
        THEN [ok |-> FALSE, nodes |-> << >>]
        ELSE [ok |-> TRUE, nodes |-> nodes]

\* What an evaluation gives: the bytes, or a failure.
Bytes(b) == [ok |-> TRUE, bytes |-> b]
ExecError == [ok |-> FALSE, bytes |-> << >>]

\* The value of one action for message m, ExecError when the evaluation
\* fails: a field of the nil Container, the slice Name[1:] of an empty
\* Name, a name Message does not have.  host is the package variable
\* hostname at the time of the execution (Message.Hostname).
EvalAction(action, m, host) ==
    CASE action = << ".", "P", "r", "i", "o", "r", "i", "t", "y" >> -> Bytes(Itoa(Priority(m)))
      [] action = << ".", "T", "i", "m", "e", "s", "t", "a", "m", "p" >> -> Bytes(Timestamp(m))
      [] action = << ".", "H", "o", "s", "t", "n", "a", "m", "e" >> -> Bytes(host)
      [] action = << ".", "D", "a", "t", "a" >> -> Bytes(m.Data)
      [] action = << ".", "C", "o", "n", "t", "a", "i", "n", "e", "r", "N", "a", "m", "e" >> ->
            IF m.Container = NilContainer THEN ExecError
            ELSE IF Len(m.Container.Name) = 0 THEN ExecError
            ELSE Bytes(SubSeq(m.Container.Name, 2, Len(m.Container.Name)))
      [] action = << ".", "C", "o", "n", "t", "a", "i", "n", "e", "r", ".", "C", "o", "n", "f", "i", "g", ".", "H", "o", "s", "t", "n", "a", "m", "e" >> ->
            IF m.Container = NilContainer THEN ExecError
            ELSE Bytes(m.Container.Hostname)
      [] action = << ".", "C", "o", "n", "t", "a", "i", "n", "e", "r", ".", "S", "t", "a", "t", "e", ".", "P", "i", "d" >> ->
            IF m.Container = NilContainer THEN ExecError
            ELSE Bytes(Itoa(m.Container.Pid))
      [] OTHER -> ExecError

RECURSIVE ExecuteFrom(_, _, _, _, _)
\* tmpl.Execute(buf, m) from node k, with the bytes written so far: the
\* bytes written, or ExecError at the first action that fails.
ExecuteFrom(nodes, k, m, host, written) ==
    IF k > Len(nodes) THEN Bytes(written)
    ELSE LET out == IF "text" \in DOMAIN nodes[k]
                    THEN Bytes(<< nodes[k].text >>)
                    ELSE EvalAction(nodes[k].action, m, host)
         IN  IF ~out.ok THEN ExecError
             ELSE ExecuteFrom(nodes, k + 1, m, host, written \o out.bytes)

\* Message.Render: (buf.Bytes(), nil), or (nil, err).
Render(t, m, host) == ExecuteFrom(t, 1, m, host, << >>)

\* ---------------------------------------------------------- configuration

\* The process environment: vars maps the names that are set to their
\* values; host_hostname is the content of /etc/host_hostname with exists
\* FALSE when the file cannot be read.

\* cfg.GetEnvDefault: the value of the variable, the default when it is
\* unset or empty.
GetEnvDefault(e, name, default) ==
    IF name \in DOMAIN e.vars /\ e.vars[name] # << >>
    THEN e.vars[name]
    ELSE default

DigitValue(c) == CHOOSE d \in 0..9 : Digits[d + 1] = c

IsDigit(c) == \E d \in 0..9 : Digits[d + 1] = c

RECURSIVE AtoiFrom(_, _, _)
AtoiFrom(s, i, acc) ==
    IF i > Len(s) THEN acc
    ELSE AtoiFrom(s, i + 1, 10 * acc + DigitValue(s[i]))

\* strconv.Atoi: (count, err).  An optional sign, then one decimal digit
\* or more; anything else is a syntax error.  The strings of the model are
\* short, so that no count is out of the range of int.
Atoi(s) ==
    LET signed == Len(s) > 0 /\ s[1] \in {"+", "-"}
        digits == IF signed THEN SubSeq(s, 2, Len(s)) ELSE s
    IN  IF Len(digits) > 0 /\ \A i \in 1..Len(digits) : IsDigit(digits[i])
        THEN [ok |-> TRUE,
              n |-> IF signed /\ s[1] = "-" THEN 0 - AtoiFrom(digits, 1, 0)
                    ELSE AtoiFrom(digits, 1, 0)]
        ELSE [ok |-> FALSE, n |-> 0]

defaultRetryCount == 10

\* setRetryCount: the value of retryCount after init().
setRetryCount(e) ==
    LET r == Atoi(GetEnvDefault(e, "RETRY_COUNT", Itoa(defaultRetryCount)))
    IN  IF ~r.ok THEN Uint(defaultRetryCount) ELSE Uint(r.n)

\* getHostname: the value it returns and stores in hostname.
getHostname(e) ==
    IF e.host_hostname.exists /\ Len(e.host_hostname.content) > 0
    THEN TrimRightCRLF(e.host_hostname.content)
    ELSE GetEnvDefault(e, "SYSLOG_HOSTNAME", << "{", "{", ".", "C", "o", "n", "t", "a", "i", "n", "e", "r", ".", "C", "o", "n", "f", "i", "g", ".", "H", "o", "s", "t", "n", "a", "m", "e", "}", "}" >>)

TraditionalTCPFraming == << "t", "r", "a", "d", "i", "t", "i", "o", "n", "a", "l" >>
OctetCountedTCPFraming == << "o", "c", "t", "e", "t", "-", "c", "o", "u", "n", "t", "e", "d" >>

\* faulty variant: every value of SYSLOG_TCP_FRAMING is accepted and stored
setTCPFramingAcceptsAny(e, cur) ==
    [ok |-> TRUE,
     tcpFraming |-> GetEnvDefault(e, "SYSLOG_TCP_FRAMING", << "t", "r", "a", "d", "i", "t", "i", "o", "n", "a", "l" >>)]

\* setTCPFraming: (the value of tcpFraming afterwards, err); cur is the
\* value before the call.
setTCPFraming(e, cur) ==
    LET s == GetEnvDefault(e, "SYSLOG_TCP_FRAMING", << "t", "r", "a", "d", "i", "t", "i", "o", "n", "a", "l" >>)
    IN  CASE s = << "t", "r", "a", "d", "i", "t", "i", "o", "n", "a", "l" >> ->
                [ok |-> TRUE, tcpFraming |-> TraditionalTCPFraming]
          [] s = << "o", "c", "t", "e", "t", "-", "c", "o", "u", "n", "t", "e", "d" >> ->
                [ok |-> TRUE, tcpFraming |-> OctetCountedTCPFraming]
          [] OTHER -> [ok |-> FALSE, tcpFraming |-> cur]

\* ------------------------------------------------------------ connections

\* The transports registered in router.AdapterTransports; a connection
\* dialled through one is a *net.UDPConn, a *net.TCPConn or a *tls.Conn.
Transports == {"udp", "tcp", "tls"}

NoConn == [id |-> 0, kind |-> "none"]

isTCPConnecion(c) == c.kind \in {"tcp", "tls"}

\* case *net.UDPConn of the type switch in Stream
IsUDPConn(c) == c.kind = "udp"

\* ------------------------------------------------------- NewSyslogAdapter

\* The template string of the format, "" (no string) for a format that is
\* not supported.
TmplStr(format, priority, timestamp, host, tag, pid, structuredData, data) ==
    CASE format = << "r", "f", "c", "5", "4", "2", "4" >> ->
            << "<" >> \o priority \o << ">", "1", " " >> \o timestamp \o << " " >>
            \o Precision(host, 255) \o << " " >> \o Precision(tag, 48) \o << " " >>
            \o Precision(pid, 128) \o << " ", "-", " " >> \o structuredData \o << " " >>
            \o data \o << "\n" >>
      [] format = << "r", "f", "c", "3", "1", "6", "4" >> ->
            << "<" >> \o priority \o << ">" >> \o timestamp \o << " " >> \o host \o << " " >>
            \o Precision(tag, 32) \o << "[" >> \o pid \o << "]", ":", " " >> \o data \o << "\n" >>
      [] OTHER -> << >>

\* NewSyslogAdapter(route) in environment e: dialled is the outcome of
\* transport.Dial (a connection, or NoConn for an error), host and framing
\* the package variables hostname and tcpFraming before the call.  Gives
\* (adapter, err) and the package variables after the call.
NewSyslogAdapter(r, e, dialled, host, framing) ==
    LET failed(h, f) == [ok |-> FALSE, conn |-> NoConn, tmpl |-> << >>,
                         hostname |-> h, tcpFraming |-> f]
    IN
    IF r.transport \notin Transports THEN failed(host, framing)
    ELSE IF dialled = NoConn THEN failed(host, framing)
    ELSE
    LET format == GetEnvDefault(e, "SYSLOG_FORMAT", << "r", "f", "c", "5", "4", "2", "4" >>)
        priority == GetEnvDefault(e, "SYSLOG_PRIORITY", << "{", "{", ".", "P", "r", "i", "o", "r", "i", "t", "y", "}", "}" >>)
        pid == GetEnvDefault(e, "SYSLOG_PID", << "{", "{", ".", "C", "o", "n", "t", "a", "i", "n", "e", "r", ".", "S", "t", "a", "t", "e", ".", "P", "i", "d", "}", "}" >>)
        h == getHostname(e)
        tag == GetEnvDefault(e, "SYSLOG_TAG",
                   << "{", "{", ".", "C", "o", "n", "t", "a", "i", "n", "e", "r", "N", "a", "m", "e", "}", "}" >> \o r.Options.append_tag)
        sd0 == GetEnvDefault(e, "SYSLOG_STRUCTURED_DATA", << >>)
        sd1 == IF r.Options.structured_data # << >>
               THEN r.Options.structured_data ELSE sd0
        data == GetEnvDefault(e, "SYSLOG_DATA", << "{", "{", ".", "D", "a", "t", "a", "}", "}" >>)
        timestamp == GetEnvDefault(e, "SYSLOG_TIMESTAMP", << "{", "{", ".", "T", "i", "m", "e", "s", "t", "a", "m", "p", "}", "}" >>)
        structuredData == IF sd1 = << >> THEN << "-" >>
                          ELSE << "[" >> \o sd1 \o << "]" >>
        fr == IF isTCPConnecion(dialled) THEN setTCPFraming(e, framing)
              ELSE [ok |-> TRUE, tcpFraming |-> framing]
        tmplStr == TmplStr(format, priority, timestamp, h, tag, pid,
                           structuredData, data)
        t == Parse(tmplStr)
    IN  IF ~fr.ok THEN failed(h, fr.tcpFraming)
        ELSE IF format \notin {<< "r", "f", "c", "5", "4", "2", "4" >>, << "r", "f", "c", "3", "1", "6", "4" >>}
        THEN failed(h, fr.tcpFraming)
        ELSE IF ~t.ok THEN failed(h, fr.tcpFraming)
        ELSE [ok |-> TRUE, conn |-> dialled, tmpl |-> t.nodes,
              hostname |-> h, tcpFraming |-> fr.tcpFraming]

\* ---------------------------------------------------------------- framing

\* faulty variant: the length prefix is written on every kind of connection
FramedOnEveryConn(c, framing, b) ==
    CASE framing = OctetCountedTCPFraming ->
            [panic |-> FALSE, bytes |-> Itoa(Len(b)) \o << " " >> \o b]
      [] OTHER -> [panic |-> FALSE, bytes |-> b]

\* Stream, the framing of the rendered buffer: the bytes to write, or the
\* panic "unknown framing format" (panic TRUE).
Framed(c, framing, b) ==
    IF isTCPConnecion(c)
    THEN CASE framing = OctetCountedTCPFraming ->
                [panic |-> FALSE, bytes |-> Itoa(Len(b)) \o << " " >> \o b]
           [] framing = TraditionalTCPFraming ->
                [panic |-> FALSE, bytes |-> b]
           [] OTHER -> [panic |-> TRUE, bytes |-> << >>]
    ELSE [panic |-> FALSE, bytes |-> b]

\* ----------------------------------------------------------- write errors

\* What the classification in retry reads of an error: whether it is a
\* *net.OpError, and for one, Temporary(), Timeout() and whether Err.Error()
\* is econnResetErrStr.
WriteError(op, temporary, timeout, reset) ==
    [opError |-> op, temporary |-> temporary, timeout |-> timeout,
     reset |-> reset]

\* The errors a Write returns in the model: of a *net.OpError a temporary
\* one, a timeout, a connection reset (temporary by its own account, as
\* ECONNRESET is for some versions of the runtime), a reset that is also a
\* timeout, and one that is none of these; and an error of another type
\* that is temporary and a timeout by its own methods.
WriteErrors ==
    { WriteError(TRUE, TRUE, FALSE, FALSE),
      WriteError(TRUE, FALSE, TRUE, FALSE),
      WriteError(TRUE, TRUE, FALSE, TRUE),
      WriteError(TRUE, TRUE, TRUE, TRUE),
      WriteError(TRUE, FALSE, FALSE, FALSE),
      WriteError(FALSE, TRUE, TRUE, FALSE) }

\* The error of a failed Dial (connection refused).
DialError == WriteError(TRUE, FALSE, FALSE, FALSE)

\* faulty variant: every temporary error is retried in place, a reset included
RetryInPlaceIgnoresReset(err) ==
    err.opError /\ (err.temporary \/ err.timeout)

\* retry, the condition of the in-place retry
RetryInPlace(err) ==
    err.opError /\ ((err.temporary /\ ~err.reset) \/ err.timeout)

\* faulty variant: a failed datagram write ends Stream
AfterWriteErrorReturns(c, err) ==
    IF IsUDPConn(c) THEN "done"
    ELSE IF RetryInPlace(err) THEN "retryTemporary"
    ELSE "reconnect"

\* faulty variant: a failed datagram write is handled like a stream write
AfterWriteErrorRetriesUDP(c, err) ==
    IF RetryInPlace(err) THEN "retryTemporary" ELSE "reconnect"

\* Stream and retry, where a failed first write leads: the next record
\* (continue), retryTemporary, or reconnect.
AfterWriteError(c, err) ==
    IF IsUDPConn(c) THEN "range"
    ELSE IF RetryInPlace(err) THEN "retryTemporary"
    ELSE "reconnect"

\* faulty variant: retry reconnects and sends again after a successful in-place
\* retry too
AfterRetryTemporaryFallsThrough(retryErr) == "reconnect"

\* faulty variant: retry returns the error of the in-place retry
AfterRetryTemporaryGivesUp(retryErr) ==
    IF retryErr = Nil THEN "range" ELSE "panicked"

\* retry, after retryTemporary returned retryErr: return nil (Stream goes
\* on with the next record), or go on to reconnect.
AfterRetryTemporary(retryErr) ==
    IF retryErr = Nil THEN "range" ELSE "reconnect"

\* faulty variant: Stream goes on with the next record after a failed retry
AfterRetryContinues(err) == "range"

\* Stream, after retry returned err: the next record, or log.Panicf.
AfterRetry(err) ==
    IF err = Nil THEN "range" ELSE "panicked"

\* faulty variant: the loop goes on with the next record after a render failure
AfterRenderSkips(ok) == IF ok THEN "write" ELSE "range"

\* Stream, after Render: the write, or the return.
AfterRender(ok) == IF ok THEN "write" ELSE "renderFailed"

\* faulty variant: the result of Dial is stored before its error is examined
ReconnectConnStoresFirst(c, dialled) == dialled

\* reconnect, the closure handed to retryExp: a.conn after transport.Dial
\* returned dialled (NoConn with an error): the old connection after an
\* error, the new one otherwise.
ReconnectConn(c, dialled) == IF dialled = NoConn THEN c ELSE dialled

\* faulty variant: retry renders the length prefix again before the re-send
ResendBufFramedAgain(c, framing, b) == Framed(c, framing, b).bytes

\* retry, the bytes of the write after the reconnect: buf as it was handed
\* to retry.
ResendBuf(c, framing, b) == b

\* ------------------------------------------------------------ variables

VARIABLES
    re,          \* stand-alone retryExp: the frame of the activation
    fun,         \* stand-alone retryExp: the operation handed to it
    env,         \* the process environment and /etc/host_hostname
    retryCount,  \* package variable retryCount
    tcpFraming,  \* package variable tcpFraming
    hostname,    \* package variable hostname
    crashed,     \* the process was ended by a panic no goroutine recovered
    route,       \* per adapter: the route handed to NewSyslogAdapter
    pc,          \* per adapter: where its goroutine stands
    conn,        \* per adapter: Adapter.conn
    tmpl,        \* per adapter: Adapter.tmpl
    logstream,   \* per adapter: the channel handed to Stream
    message,     \* per adapter: the loop variable message of Stream
    buf,         \* per adapter: the local buf of Stream / retry
    err,         \* per adapter: the local err of Stream / retry
    frame,       \* per adapter: the frame of the running retryExp
    nextConn,    \* the number of connections dialled so far
    writes,      \* per adapter: the Write calls made for the current record
    dials,       \* per adapter: the Dial calls made for the current record
    sent,        \* per adapter: the records written successfully, in order
    input        \* per adapter: the records the host delivers, in order

retryVars == << re, fun >>
processVars == << env, retryCount, tcpFraming, hostname, crashed, nextConn >>
adapterVars == << route, pc, conn, tmpl, logstream, message, buf, err, frame,
                  writes, dials, sent, input >>
vars == << re, fun, env, retryCount, tcpFraming, hostname, crashed, route, pc,
           conn, tmpl, logstream, message, buf, err, frame, nextConn, writes,
           dials, sent, input >>

\* ------------------------------------------------------------------ inputs

\* Largest RETRY_COUNT of the environments of Spec.
MaxRetryCount == 2
\* Largest number of records the host delivers to the adapter of Spec.
MaxMsgs == 3
\* Largest RETRY_COUNT of the environments of SpecLive, and the largest
\* number of records the host delivers to its adapter.
MaxRetryCountLive == 2
MaxMsgsLive == 1
\* Length of the longest Container.Name of the records of SpecRender.
MaxNameLen == 50

\* Largest number of records the host delivers to the first of the two
\* adapters of SpecHost.
MaxMsgsHost == 1

AdapterIds == {1, 2}

\* os.Hostname() of the process
OsHostname == << "n", "o", "d", "e" >>

\* Records as the host delivers them, without their place in the stream: a
\* line of a container, and a record whose Container is nil.
GoodRecord ==
    [Source |-> "stdout", Data |-> << "h", "e", "l", "l", "o" >>, Time |-> 1,
     Container |-> [Name |-> << "/", "w", "e", "b", "-", "1" >>, Hostname |-> << "c", "1" >>, Pid |-> 42]]
NilContainerRecord ==
    [Source |-> "stderr", Data |-> << "o", "o", "p", "s" >>, Time |-> 2,
     Container |-> NilContainer]

RecordKinds == {GoodRecord, NilContainerRecord}

\* The streams of at most n records; record i of a stream carries id i.
Streams(n) ==
    UNION { { [i \in 1..k |-> [id |-> i] @@ s[i]] : s \in [1..k -> RecordKinds] }
            : k \in 0..n }

NoMessage == [id |-> 0]

NoHostFile == [exists |-> FALSE, content |-> << >>]

\* The environments with RETRY_COUNT in lo..hi and SYSLOG_TCP_FRAMING unset,
\* octet-counted, or a value that is no framing.
Envs(lo, hi) ==
    { [vars |-> ("RETRY_COUNT" :> Itoa(c)) @@ ("SYSLOG_TCP_FRAMING" :> f),
       host_hostname |-> NoHostFile]
      : c \in lo..hi, f \in {<< >>, OctetCountedTCPFraming, << "l", "f" >>} }

NoOptions == [append_tag |-> << >>, structured_data |-> << >>]

\* The routes: one per registered transport and one with a transport that
\* is not registered.
Routes == { [transport |-> t, Options |-> NoOptions]
            : t \in Transports \cup {"bogus"} }

IdleFrame == [retryExpEnter(Uint(0)) EXCEPT !.at = "return"]

\* ------------------------------------------------------------------- Init

\* The process after init(), with the adapters of live not yet built, each
\* with a route and the stream of records its channel will carry.
InitProcess(e, live, rs, ins) ==
    /\ env = e
    /\ retryCount = setRetryCount(e)
    /\ tcpFraming = << >>
    /\ hostname = OsHostname
    /\ crashed = FALSE
    /\ nextConn = 0
    /\ route = rs
    /\ input = ins
    /\ pc = [a \in AdapterIds |-> IF a \in live THEN "new" ELSE "absent"]
    /\ conn = [a \in AdapterIds |-> NoConn]
    /\ tmpl = [a \in AdapterIds |-> << >>]
    /\ logstream = [a \in AdapterIds |-> [queue |-> ins[a], closed |-> FALSE]]
    /\ message = [a \in AdapterIds |-> NoMessage]
    /\ buf = [a \in AdapterIds |-> << >>]
    /\ err = [a \in AdapterIds |-> Nil]
    /\ frame = [a \in AdapterIds |-> IdleFrame]
    /\ writes = [a \in AdapterIds |-> << >>]
    /\ dials = [a \in AdapterIds |-> << >>]
    /\ sent = [a \in AdapterIds |-> << >>]

NoRetryExp ==
    /\ re = IdleFrame
    /\ fun = [succeedsAt |-> 0]

\* One adapter.
Init ==
    /\ NoRetryExp
    /\ \E e \in Envs(0, MaxRetryCount), r \in Routes, s \in Streams(MaxMsgs) :
          InitProcess(e, {1},
                      [a \in AdapterIds |-> r],
                      [a \in AdapterIds |-> IF a = 1 THEN s ELSE << >>])

\* Two adapters in one process with RETRY_COUNT=1: adapter 1 on udp, tcp or
\* a transport that is not registered, with any stream of records; adapter
\* 2 on the default transport (udp), with one line of a container or no
\* record at all.
InitHost ==
    /\ NoRetryExp
    /\ \E e \in Envs(1, 1) :
       \E r \in { x \in Routes : x.transport # "tls" } :
       \E s1 \in Streams(MaxMsgsHost) :
       \E s2 \in { << >>, << [id |-> 1] @@ GoodRecord >> } :
          InitProcess(e, AdapterIds,
                      [a \in AdapterIds |->
                          IF a = 1 THEN r
                          ELSE [transport |-> "udp", Options |-> NoOptions]],
                      [a \in AdapterIds |-> IF a = 1 THEN s1 ELSE s2])

\* A Container.Name of n characters: the slash docker puts first, then
\* letters.
NameOfLen(n) == [i \in 1..n |-> IF i = 1 THEN "/" ELSE "a"]

\* The records of SpecRender: a line of a container under each kind of
\* source tag and with names of several lengths.
RenderRecords ==
    { [id |-> 1, Source |-> s, Data |-> << "h", "e", "l", "l", "o" >>, Time |-> 1,
       Container |-> [Name |-> NameOfLen(n), Hostname |-> << "c", "1" >>, Pid |-> 42]]
      : s \in {"stdout", "stderr", "", "kernel"},
        n \in {6, 34, MaxNameLen} }

\* The environments of SpecRender: RETRY_COUNT=1 and SYSLOG_FORMAT unset,
\* rfc3164, or a value that is no format.
RenderEnvs ==
    { [vars |-> ("RETRY_COUNT" :> << "1" >>) @@ ("SYSLOG_FORMAT" :> f),
       host_hostname |-> NoHostFile]
      : f \in {<< >>, << "r", "f", "c", "3", "1", "6", "4" >>, << "r", "f", "c", "1" >> } }

\* One adapter on udp or tcp, one record: the rendering of the record under
\* each format.
InitRender ==
    /\ NoRetryExp
    /\ \E e \in RenderEnvs, t \in {"udp", "tcp"}, m \in RenderRecords :
          InitProcess(e, {1},
                      [a \in AdapterIds |-> [transport |-> t, Options |-> NoOptions]],
                      [a \in AdapterIds |-> IF a = 1 THEN << m >> ELSE << >>])

\* One adapter on udp or tcp with the default framing, for the runs in
\* which its goroutine keeps being scheduled (SpecLive).
InitLive ==
    /\ NoRetryExp
    /\ \E e \in Envs(0, MaxRetryCountLive), t \in {"udp", "tcp"},
          s \in Streams(MaxMsgsLive) :
          /\ e.vars["SYSLOG_TCP_FRAMING"] = << >>
          /\ InitProcess(e, {1},
                         [a \in AdapterIds |-> [transport |-> t, Options |-> NoOptions]],
                         [a \in AdapterIds |-> IF a = 1 THEN s ELSE << >>])

\* The settings of RETRY_COUNT of SpecRetryExp, each with the int it is the
\* decimal notation of (count; parses FALSE for a text that is no int).
RetryCountSettings ==
    { [text |-> << >>, parses |-> FALSE, count |-> 0],
      [text |-> << "a", "b", "c" >>, parses |-> FALSE, count |-> 0],
      [text |-> << "3", "x" >>, parses |-> FALSE, count |-> 0],
      [text |-> << "-" >>, parses |-> FALSE, count |-> 0],
      [text |-> << "0" >>, parses |-> TRUE, count |-> 0],
      [text |-> << "3" >>, parses |-> TRUE, count |-> 3],
      [text |-> << "+", "2" >>, parses |-> TRUE, count |-> 2],
      [text |-> << "1", "2" >>, parses |-> TRUE, count |-> 12],
      [text |-> << "-", "1" >>, parses |-> TRUE, count |-> 0 - 1],
      [text |-> << "-", "2", "0" >>, parses |-> TRUE, count |-> 0 - 20] }

\* retryExp alone: an operation that succeeds at its k-th invocation
\* (succeedsAt = k), should it be invoked so often, or never (succeedsAt =
\* 0), and a budget: any budget up to MaxTries in a process with
\* RETRY_COUNT unset, or the retryCount of a process with RETRY_COUNT set,
\* as retryTemporary and reconnect hand it over.
InitRetryExp ==
    /\ \E k \in 0..(MaxTries + 1) :
          fun = [succeedsAt |-> k]
    /\ \E s \in RetryCountSettings :
          /\ InitProcess([vars |-> ("RETRY_COUNT" :> s.text),
                          host_hostname |-> NoHostFile], {},
                         [a \in AdapterIds |-> [transport |-> "udp", Options |-> NoOptions]],
                         [a \in AdapterIds |-> << >>])
          /\ IF s.text = << >>
             THEN \E tries \in 0..MaxTries : re = retryExpEnter(Uint(tries))
             ELSE re = retryExpEnter(setRetryCount(env))


\* ---------------------------------------------------------------- actions

\* The error of a failed Render.
RenderError == [render |-> TRUE]

\* A Write call of adapter a for the record at hand, on its connection.
WriteEvent(a, b, e, by) ==
    [rec |-> message[a].id, conn |-> conn[a].id, buf |-> b,
     ok |-> (e = Nil), by |-> by]

\* No goroutine runs once a panic has ended the process.
Running == ~crashed

\* The host builds adapter a from its route and starts Stream on it.
Construct(a) ==
    /\ Running
    /\ pc[a] = "new"
    /\ \E dialOk \in BOOLEAN :
          LET dialled == IF dialOk /\ route[a].transport \in Transports
                         THEN [id |-> nextConn + 1, kind |-> route[a].transport]
                         ELSE NoConn
              r == NewSyslogAdapter(route[a], env, dialled, hostname, tcpFraming)
          IN  /\ nextConn' = IF dialled = NoConn THEN nextConn ELSE nextConn + 1
              /\ hostname' = r.hostname
              /\ tcpFraming' = r.tcpFraming
              /\ conn' = [conn EXCEPT ![a] = r.conn]
              /\ tmpl' = [tmpl EXCEPT ![a] = r.tmpl]
              /\ pc' = [pc EXCEPT ![a] = IF r.ok THEN "range" ELSE "failed"]
    /\ UNCHANGED << retryVars, env, retryCount, crashed, route, logstream,
                    message, buf, err, frame, writes, dials, sent, input >>

\* The host closes the channel after its last record.
HostClose(a) ==
    /\ Running
    /\ pc[a] \notin {"absent", "new", "failed"}
    /\ logstream[a].queue = << >>
    /\ ~logstream[a].closed
    /\ logstream' = [logstream EXCEPT ![a].closed = TRUE]
    /\ UNCHANGED << retryVars, processVars, route, pc, conn, tmpl, message,
                    buf, err, frame, writes, dials, sent, input >>

\* for message := range logstream, the channel closed and drained: Stream
\* returns.
StreamClosed(a) ==
    /\ Running
    /\ pc[a] = "range"
    /\ logstream[a].queue = << >>
    /\ logstream[a].closed
    /\ pc' = [pc EXCEPT ![a] = "done"]
    /\ UNCHANGED << retryVars, processVars, route, conn, tmpl, logstream,
                    message, buf, err, frame, writes, dials, sent, input >>

\* for message := range logstream, a record received: Render, the framing,
\* up to the call of a.conn.Write.
StreamNext(a) ==
    /\ Running
    /\ pc[a] = "range"
    /\ logstream[a].queue # << >>
    /\ LET m == Head(logstream[a].queue)
           r == Render(tmpl[a], m, hostname)
           fr == Framed(conn[a], tcpFraming, r.bytes)
           to == IF r.ok /\ fr.panic THEN "panicked" ELSE AfterRender(r.ok)
       IN  /\ message' = [message EXCEPT ![a] = m]
           /\ logstream' = [logstream EXCEPT ![a].queue = Tail(@)]
           /\ buf' = [buf EXCEPT ![a] = IF r.ok /\ ~fr.panic THEN fr.bytes
                                        ELSE << >>]
           /\ err' = [err EXCEPT ![a] = IF r.ok THEN Nil ELSE RenderError]
           /\ pc' = [pc EXCEPT ![a] = to]
           /\ crashed' = (to = "panicked")
    /\ writes' = [writes EXCEPT ![a] = << >>]
    /\ dials' = [dials EXCEPT ![a] = << >>]
    /\ UNCHANGED << retryVars, env, retryCount, tcpFraming, hostname, nextConn,
                    route, conn, tmpl, frame, sent, input >>

\* a.conn.Write(buf) in Stream; on an error the type switch and, for a
\* stream connection, the classification of retry.
StreamWrite(a) ==
    /\ Running
    /\ pc[a] = "write"
    /\ \E e \in WriteErrors \cup {Nil} :
          LET to == IF e = Nil THEN "range" ELSE AfterWriteError(conn[a], e)
          IN  /\ writes' = [writes EXCEPT ![a] =
                                Append(@, WriteEvent(a, buf[a], e, "Stream"))]
              /\ sent' = [sent EXCEPT ![a] =
                              IF e = Nil THEN Append(@, message[a]) ELSE @]
              /\ err' = [err EXCEPT ![a] = e]
              /\ pc' = [pc EXCEPT ![a] = to]
              /\ frame' = [frame EXCEPT ![a] =
                               IF to \in {"retryTemporary", "reconnect"}
                               THEN retryExpEnter(retryCount) ELSE @]
    /\ UNCHANGED << retryVars, processVars, route, conn, tmpl, logstream,
                    message, buf, dials, input >>

\* retryTemporary, one invocation of its closure by retryExp: a.conn.Write
\* of the same buf; when retryExp returns, retry returns nil to Stream or
\* goes on to reconnect.
RetryTemporaryWrite(a) ==
    /\ Running
    /\ pc[a] = "retryTemporary"
    /\ frame[a].at = "fun"
    /\ \E e \in WriteErrors \cup {Nil} :
          LET f == retryExpFun(frame[a], e)
              to == IF f.at = "return" THEN AfterRetryTemporary(f.err)
                    ELSE "retryTemporary"
          IN  /\ writes' = [writes EXCEPT ![a] =
                                Append(@, WriteEvent(a, buf[a], e, "retryTemporary"))]
              /\ sent' = [sent EXCEPT ![a] =
                              IF e = Nil THEN Append(@, message[a]) ELSE @]
              /\ err' = [err EXCEPT ![a] =
                             IF to = "range" THEN Nil
                             ELSE IF to = "panicked" THEN f.err
                             ELSE @]
              /\ pc' = [pc EXCEPT ![a] = to]
              /\ crashed' = (to = "panicked")
              /\ frame' = [frame EXCEPT ![a] =
                               IF to = "reconnect" THEN retryExpEnter(retryCount)
                               ELSE f]
    /\ UNCHANGED << retryVars, env, retryCount, tcpFraming, hostname, nextConn,
                    route, conn, tmpl, logstream, message, buf, dials, input >>

\* time.Sleep of the retryExp the adapter runs.
RetrySleep(a) ==
    /\ Running
    /\ pc[a] \in {"retryTemporary", "reconnect"}
    /\ frame[a].at = "sleep"
    /\ frame' = [frame EXCEPT ![a] = retryExpSleep(@)]
    /\ UNCHANGED << retryVars, processVars, route, pc, conn, tmpl, logstream,
                    message, buf, err, writes, dials, sent, input >>

\* reconnect, one invocation of its closure by retryExp: transport.Dial,
\* and a.conn = conn when it succeeds; when retryExp returns, retry goes on
\* to the write or returns the error to Stream, which panics.
ReconnectDial(a) ==
    /\ Running
    /\ pc[a] = "reconnect"
    /\ frame[a].at = "fun"
    /\ \E ok \in BOOLEAN :
          LET dialled == IF ok THEN [id |-> nextConn + 1, kind |-> conn[a].kind]
                         ELSE NoConn
              f == retryExpFun(frame[a], IF ok THEN Nil ELSE DialError)
              to == IF f.at # "return" THEN "reconnect"
                    ELSE IF f.err = Nil THEN "resend"
                    ELSE AfterRetry(f.err)
          IN  /\ dials' = [dials EXCEPT ![a] = Append(@, ok)]
              /\ conn' = [conn EXCEPT ![a] = ReconnectConn(@, dialled)]
              /\ nextConn' = IF ok THEN nextConn + 1 ELSE nextConn
              /\ err' = [err EXCEPT ![a] =
                             IF to \in {"reconnect", "resend"} THEN @ ELSE f.err]
              /\ pc' = [pc EXCEPT ![a] = to]
              /\ crashed' = (to = "panicked")
              /\ frame' = [frame EXCEPT ![a] = f]
    /\ UNCHANGED << retryVars, env, retryCount, tcpFraming, hostname, route,
                    tmpl, logstream, message, buf, writes, sent, input >>

\* retry, the write on the new connection; Stream panics when retry
\* returns its error.
RetryResend(a) ==
    /\ Running
    /\ pc[a] = "resend"
    /\ \E e \in WriteErrors \cup {Nil} :
          LET b == ResendBuf(conn[a], tcpFraming, buf[a])
              to == AfterRetry(e)
          IN  /\ writes' = [writes EXCEPT ![a] =
                                Append(@, WriteEvent(a, b, e, "retry"))]
              /\ sent' = [sent EXCEPT ![a] =
                              IF e = Nil THEN Append(@, message[a]) ELSE @]
              /\ err' = [err EXCEPT ![a] = e]
              /\ pc' = [pc EXCEPT ![a] = to]
              /\ crashed' = (to = "panicked")
    /\ UNCHANGED << retryVars, env, retryCount, tcpFraming, hostname, nextConn,
                    route, conn, tmpl, logstream, message, buf, frame, dials,
                    input >>

\* The steps of the goroutine of adapter a.
Step(a) ==
    \/ StreamClosed(a)
    \/ StreamNext(a)
    \/ StreamWrite(a)
    \/ RetryTemporaryWrite(a)
    \/ RetrySleep(a)
    \/ ReconnectDial(a)
    \/ RetryResend(a)

\* retryExp alone: the call of fun, whose i-th invocation fails with the
\* error [id |-> i] unless it is the one that succeeds.  A run is followed
\* up to invocation MaxTries + 2.
RetryExpFun ==
    /\ re.at = "fun"
    /\ re.calls <= MaxTries + 1
    /\ LET i == re.calls + 1
       IN  re' = retryExpFun(re, IF i = fun.succeedsAt THEN Nil ELSE [id |-> i])
    /\ UNCHANGED << fun, processVars, adapterVars >>

\* retryExp alone: the sleep.
RetryExpSleep ==
    /\ re.at = "sleep"
    /\ re' = retryExpSleep(re)
    /\ UNCHANGED << fun, processVars, adapterVars >>

Next ==
    \E a \in AdapterIds :
        \/ Construct(a)
        \/ HostClose(a)
        \/ StreamClosed(a)
        \/ StreamNext(a)
        \/ StreamWrite(a)
        \/ RetryTemporaryWrite(a)
        \/ RetrySleep(a)
        \/ ReconnectDial(a)
        \/ RetryResend(a)

NextRetryExp == RetryExpFun \/ RetryExpSleep

Spec == Init /\ [][Next]_vars

\* One adapter whose goroutine is scheduled as long as it can take a step:
\* every Write, Dial and Sleep it calls returns.
SpecLive == InitLive /\ [][Next]_vars /\ WF_vars(Step(1)) /\ WF_vars(Step(2))

SpecHost == InitHost /\ [][Next]_vars

SpecRender == InitRender /\ [][Next]_vars

SpecRetryExp == InitRetryExp /\ [][NextRetryExp]_vars

\* ----------------------------------------------------------------- claims

Built(a) == pc[a] \notin {"absent", "new", "failed"}

\* Comparisons of a natural number n with a uint u, as numbers: n <= u,
\* n <= u + 1 and n = u + 1.
UpTo(n, u) == ~UintGreater(Uint(n), u)
UpToNext(n, u) == n = 0 \/ UpTo(n - 1, u)
IsNext(n, u) == n > 0 /\ Uint(n - 1) = u

\* The adapter's connection is a stream (TCP or TLS) connection.
OnStream(a) == Built(a) /\ conn[a].kind \in {"tcp", "tls"}

OnDatagram(a) == Built(a) /\ conn[a].kind = "udp"

\* The number of records adapter a has received.
Received(a) == Len(input[a]) - Len(logstream[a].queue)

\* The places of the writes of the current record made by `by`.
WritesBy(a, by) == { k \in 1..Len(writes[a]) : writes[a][k].by = by }

\* The handling of the current record is over and the loop goes on.
BackInLoop(a) == pc[a] \in {"range", "done"} /\ ~crashed

\* A write error that is a network operation error and (temporary and not
\* a connection reset) or a timeout.
Transient(e) ==
    /\ e \in WriteErrors
    /\ e.opError
    /\ ((e.temporary /\ ~e.reset) \/ e.timeout)

\* C1: an adapter handles its records one at a time in channel order: the
\* record at hand is the last one taken from the channel, every write since
\* it was taken is a write of it, the first write is issued only when no
\* write of it was made, no write follows a successful one, and the
\* records written successfully are records of the input, each once, in
\* the order of the input.
C1_OneAtATimeInOrder ==
    \A a \in AdapterIds :
        LET n == Received(a)
        IN  /\ logstream[a].queue = SubSeq(input[a], n + 1, Len(input[a]))
            /\ message[a] = IF n = 0 THEN NoMessage ELSE input[a][n]
            /\ \A k \in 1..Len(writes[a]) :
                  /\ writes[a][k].rec = n
                  /\ writes[a][k].ok => k = Len(writes[a])
            /\ pc[a] = "write" => writes[a] = << >>
            /\ \A k \in 1..Len(sent[a]) :
                  /\ sent[a][k].id \in 1..n
                  /\ sent[a][k] = input[a][sent[a][k].id]
                  /\ k > 1 => sent[a][k - 1].id < sent[a][k].id
            /\ (\E k \in 1..Len(writes[a]) : writes[a][k].ok)
                  <=> (sent[a] # << >> /\ sent[a][Len(sent[a])].id = n)

\* C1 witness: a second record delivered by the re-send after a reconnect
\* that followed in-place retries.
C1_Witness ==
    \E a \in AdapterIds :
        /\ Len(sent[a]) = 2
        /\ WritesBy(a, "retryTemporary") # {}
        /\ WritesBy(a, "retry") # {}
        /\ writes[a][Len(writes[a])].ok

\* The operation of the stand-alone retryExp fails at every invocation the
\* budget allows.
FunAlwaysFails == fun.succeedsAt = 0 \/ ~UpToNext(fun.succeedsAt, re.tries)

\* C2: retryExp invokes an operation that always fails exactly tries + 1
\* times and returns the error of the last invocation; it invokes an
\* operation that first succeeds at its k-th invocation exactly k times and
\* returns nil, and never invokes it after the success.
C2_RetryExpInvocations ==
    /\ UpToNext(re.calls, re.tries)
    /\ ~FunAlwaysFails => re.calls <= fun.succeedsAt
    /\ re.at = "return" =>
          IF FunAlwaysFails
          THEN IsNext(re.calls, re.tries) /\ re.err = [id |-> re.calls]
          ELSE re.calls = fun.succeedsAt /\ re.err = Nil

\* C2 witness: retryExp returned the last error after using up a budget of
\* three retries.
C2_Witness ==
    /\ re.at = "return"
    /\ re.tries = Uint(3)
    /\ re.calls = 4
    /\ re.err = [id |-> 4]

\* C3 (as claimed): the sleep after the n-th failed invocation is exactly
\* 10ms x 2^n, the sleeps are strictly increasing, there are at most tries
\* of them and none after the last failed invocation.
C3_BackoffExact ==
    /\ UpTo(Len(re.sleeps), re.tries)
    /\ re.at = "return" /\ re.err # Nil => Len(re.sleeps) = re.calls - 1
    /\ \A n \in 1..Len(re.sleeps) :
          /\ SignExtend(re.sleeps[n], WideLimbs) = ExactBackoff(n)
          /\ n > 1 => DurationLess(re.sleeps[n - 1], re.sleeps[n])

\* C4: after a failed write on a datagram connection the record is
\* dropped: that write stays the only one of the record, nothing is
\* dialled, the connection is the one written to, the record is not among
\* the sent ones, and the loop is back at the channel, where it takes the
\* next record.
C4_DatagramWriteFailureDrops ==
    \A a \in AdapterIds :
        (OnDatagram(a) /\ writes[a] # << >> /\ ~writes[a][1].ok) =>
            /\ Len(writes[a]) = 1
            /\ dials[a] = << >>
            /\ conn[a].id = writes[a][1].conn
            /\ \A k \in 1..Len(sent[a]) : sent[a][k].id # message[a].id
            /\ BackInLoop(a)

\* C4 witness: a datagram adapter dropped its second record and has a
\* third to take.
C4_Witness ==
    \E a \in AdapterIds :
        /\ OnDatagram(a)
        /\ Len(sent[a]) = 1
        /\ message[a].id = 2
        /\ Len(writes[a]) = 1 /\ ~writes[a][1].ok
        /\ pc[a] = "range"
        /\ logstream[a].queue # << >>

\* The first write of the current record of adapter a failed.
FirstWriteFailed(a) == writes[a] # << >> /\ ~writes[a][1].ok

\* C5: on a stream connection, a permanent error of the first write leads
\* straight to reconnect (no in-place write); the dials of a record are one
\* retryExp sequence (at most retryCount + 1, none after a success); the
\* write after the reconnect happens once, after a successful dial, on the
\* new connection, with the bytes of the failed first write; and a record
\* whose first write failed is done only by an in-place success or by that
\* one re-send.
C5_PermanentErrorReconnectsOnce ==
    \A a \in AdapterIds :
        OnStream(a) =>
            LET ws == writes[a]
                ds == dials[a]
                dialled == ds # << >> /\ ds[Len(ds)]
            IN  /\ (pc[a] \in {"reconnect", "resend"} /\ ~Transient(err[a])) =>
                      /\ Len(ws) = 1
                      /\ FirstWriteFailed(a)
                /\ UpToNext(Len(ds), retryCount)
                /\ \A k \in 1..Len(ds) : ds[k] => k = Len(ds)
                /\ ds # << >> => FirstWriteFailed(a)
                /\ Cardinality(WritesBy(a, "retry")) <= 1
                /\ \A k \in WritesBy(a, "retry") :
                      /\ k = Len(ws)
                      /\ dialled
                      /\ ws[k].buf = ws[1].buf
                      /\ ws[k].conn = conn[a].id
                      /\ ws[k].conn # ws[1].conn
                /\ pc[a] = "resend" =>
                      /\ dialled
                      /\ WritesBy(a, "retry") = {}
                      /\ conn[a].id # ws[1].conn
                /\ (dialled /\ pc[a] # "resend") => WritesBy(a, "retry") # {}
                /\ (FirstWriteFailed(a) /\ BackInLoop(a)) =>
                      /\ ws[Len(ws)].ok
                      /\ WritesBy(a, "retryTemporary") = {} =>
                            (dialled /\ Len(ws) = 2)

\* C5 witness: with octet-counted framing, a record whose first write
\* failed was delivered by the re-send after the second dial, no in-place
\* write made.
C5_Witness ==
    \E a \in AdapterIds :
        /\ OnStream(a)
        /\ tcpFraming = OctetCountedTCPFraming
        /\ pc[a] = "range"
        /\ dials[a] = << FALSE, TRUE >>
        /\ Len(writes[a]) = 2
        /\ writes[a][2].by = "retry" /\ writes[a][2].ok

\* C6: on a stream connection the in-place retry is made exactly for the
\* transient errors; its writes are writes of the same bytes on the same
\* connection; and after one of them succeeds nothing is dialled, the
\* connection is the same, no write follows and the loop is back at the
\* channel.
C6_InPlaceRetryIffTransient ==
    \A a \in AdapterIds :
        LET ws == writes[a]
        IN  /\ pc[a] = "retryTemporary" => (OnStream(a) /\ Transient(err[a]))
            /\ (pc[a] = "reconnect" /\ WritesBy(a, "retryTemporary") = {}) =>
                  ~Transient(err[a])
            /\ \A k \in WritesBy(a, "retryTemporary") :
                  /\ FirstWriteFailed(a)
                  /\ ws[k].buf = ws[1].buf
                  /\ ws[k].conn = ws[1].conn
                  /\ ws[k].ok =>
                        /\ k = Len(ws)
                        /\ dials[a] = << >>
                        /\ conn[a].id = ws[1].conn
                        /\ BackInLoop(a)

\* C6 witness: the second in-place write of a record succeeded and the
\* loop is back at the channel with a record to take.
C6_Witness ==
    \E a \in AdapterIds :
        /\ OnStream(a)
        /\ Len(writes[a]) = 3
        /\ writes[a][3].by = "retryTemporary" /\ writes[a][3].ok
        /\ pc[a] = "range"
        /\ logstream[a].queue # << >>

\* The in-place retry of the current record used up its budget.
InPlaceExhausted(a) ==
    /\ IsNext(Cardinality(WritesBy(a, "retryTemporary")), retryCount)
    /\ \A k \in WritesBy(a, "retryTemporary") : ~writes[a][k].ok

\* C7: the in-place retry makes at most retryCount + 1 writes; when all of
\* them failed the adapter is not fatal: before any dial it stands at the
\* start of a reconnect with a fresh budget, as after a permanent error; a
\* panic comes only after a dial; and while no dial succeeded the
\* connection is the original one.
C7_ExhaustedInPlaceReconnects ==
    \A a \in AdapterIds :
        /\ UpToNext(Cardinality(WritesBy(a, "retryTemporary")), retryCount)
        /\ InPlaceExhausted(a) =>
              /\ dials[a] = << >> =>
                    /\ pc[a] = "reconnect"
                    /\ frame[a] = retryExpEnter(retryCount)
                    /\ ~crashed
              /\ pc[a] = "panicked" => dials[a] # << >>
              /\ (\A k \in 1..Len(dials[a]) : ~dials[a][k]) =>
                    conn[a].id = writes[a][1].conn
              /\ (dials[a] # << >> /\ dials[a][Len(dials[a])]) =>
                    conn[a].id # writes[a][1].conn

\* C7 witness: all three in-place writes of a budget of two failed and the
\* adapter stands at the first dial.
C7_Witness ==
    \E a \in AdapterIds :
        /\ retryCount = Uint(2)
        /\ InPlaceExhausted(a)
        /\ pc[a] = "reconnect"
        /\ dials[a] = << >>

\* The re-send after a reconnect failed.
ResendFailed(a) == \E k \in WritesBy(a, "retry") : ~writes[a][k].ok

\* Every dial of the reconnect failed.
DialsExhausted(a) ==
    /\ IsNext(Len(dials[a]), retryCount)
    /\ \A k \in 1..Len(dials[a]) : ~dials[a][k]

C8_Fatal ==
    \A a \in AdapterIds :
        /\ ResendFailed(a) =>
              /\ pc[a] = "panicked"
              /\ ~writes[a][Len(writes[a])].ok
              /\ writes[a][Len(writes[a])].by = "retry"
        /\ DialsExhausted(a) =>
              /\ pc[a] = "panicked"
              /\ WritesBy(a, "retry") = {}

C8_Stays ==
    \A a \in AdapterIds :
        pc[a] = "panicked" =>
            /\ pc'[a] = "panicked"
            /\ message'[a] = message[a]
            /\ logstream'[a].queue = logstream[a].queue
            /\ writes'[a] = writes[a]
            /\ dials'[a] = dials[a]
            /\ sent'[a] = sent[a]
            /\ conn'[a] = conn[a]

\* C8: after a failed re-send (whatever its error) or after the last dial
\* of the budget failed the adapter is fatal, that write or dial being the
\* last; and a fatal adapter takes no record, writes nothing and dials
\* nothing from then on.
C8_FatalAfterReconnect == [] C8_Fatal /\ [][C8_Stays]_vars

\* C8 witness: the re-send failed with a transient error, the adapter is
\* fatal and its channel still holds a record.
C8_Witness ==
    \E a \in AdapterIds :
        /\ pc[a] = "panicked"
        /\ ResendFailed(a)
        /\ Transient(err[a])
        /\ logstream[a].queue # << >>

\* C9 (as claimed): when an adapter is fatal the process is not ended, and
\* another adapter with a write to make can make it.
C9_FatalIsLocal ==
    \A a, b \in AdapterIds :
        (a # b /\ pc[a] = "panicked" /\ pc[b] = "write") => Running

C10_Failed ==
    \A a \in AdapterIds :
        /\ (Built(a) /\ message[a] # NoMessage
                /\ message[a].Container = NilContainer) =>
              pc[a] = "renderFailed"
        /\ pc[a] = "renderFailed" =>
              /\ writes[a] = << >>
              /\ dials[a] = << >>
              /\ buf[a] = << >>
              /\ \A k \in 1..Len(sent[a]) : sent[a][k].id < message[a].id
              /\ ~crashed

C10_Returns ==
    \A a \in AdapterIds :
        /\ (pc[a] # "renderFailed" /\ pc'[a] = "renderFailed") =>
              /\ conn'[a] = conn[a]
              /\ sent'[a] = sent[a]
        /\ pc[a] = "renderFailed" =>
              /\ pc'[a] = "renderFailed"
              /\ message'[a] = message[a]
              /\ logstream'[a].queue = logstream[a].queue
              /\ writes'[a] = writes[a]
              /\ dials'[a] = dials[a]
              /\ sent'[a] = sent[a]
              /\ conn'[a] = conn[a]

\* C10: a record whose rendering fails ends Stream at once: nothing is
\* written or dialled for it, the connection and the sent records are as
\* before, and from then on the adapter takes no record from its channel
\* and writes nothing.
C10_RenderFailureReturns == [] C10_Failed /\ [][C10_Returns]_vars

\* C10 witness: the second record failed to render after the first was
\* sent, and the channel still holds the third.
C10_Witness ==
    \E a \in AdapterIds :
        /\ pc[a] = "renderFailed"
        /\ message[a].id = 2
        /\ Len(sent[a]) = 1
        /\ logstream[a].queue # << >>


\* Stream has stopped: it returned or it panicked.
Stopped(a) == pc[a] \in {"done", "renderFailed", "panicked"}

\* The last write of the current record succeeded.
LastWriteOk(a) == writes[a] # << >> /\ writes[a][Len(writes[a])].ok

\* C11: a Stream that stopped returned because its channel was closed and
\* drained, returned because the record at hand failed to render, or
\* panicked after the re-send failed or the dials of the reconnect were
\* used up; and after a write of the record succeeded (the first one, an
\* in-place one or the re-send) and after a failed write on a datagram
\* connection the loop has not stopped for that record: it stands at the
\* channel, or it returned because the channel was closed and drained.
C11_StopsOnlyForThreeReasons ==
    \A a \in AdapterIds :
        /\ pc[a] = "done" =>
              /\ logstream[a].closed
              /\ logstream[a].queue = << >>
              /\ Received(a) = Len(input[a])
              /\ err[a] = Nil \/ OnDatagram(a)
        /\ pc[a] = "renderFailed" =>
              /\ err[a] = RenderError
              /\ ~Render(tmpl[a], message[a], hostname).ok
        /\ pc[a] = "panicked" =>
              /\ err[a] # Nil
              /\ ResendFailed(a) \/ DialsExhausted(a)
        /\ (Built(a) /\ LastWriteOk(a)) => pc[a] \in {"range", "done"}
        /\ (OnDatagram(a) /\ FirstWriteFailed(a)) => pc[a] \in {"range", "done"}
        /\ (Stopped(a) /\ pc[a] # "done") =>
              ~LastWriteOk(a) /\ ~(OnDatagram(a) /\ FirstWriteFailed(a))

\* C11 witness: a datagram adapter dropped its first record after a failed
\* write, then took and wrote the second, and stands at the channel, which
\* still holds a third.
C11_Witness ==
    \E a \in AdapterIds :
        /\ OnDatagram(a)
        /\ message[a].id = 2
        /\ LastWriteOk(a)
        /\ pc[a] = "range"
        /\ ~logstream[a].closed
        /\ logstream[a].queue # << >>
        /\ Len(sent[a]) = 1


\* The index of the first space of b at or after i, 0 when there is none.
RECURSIVE SpaceAt(_, _)
SpaceAt(b, i) ==
    IF i > Len(b) THEN 0
    ELSE IF b[i] = " " THEN i
    ELSE SpaceAt(b, i + 1)

\* b is the decimal length of unframed without a leading zero, one space,
\* then unframed.
OctetCounted(b, unframed) ==
    LET sp == SpaceAt(b, 1)
    IN  /\ sp > 1
        /\ b[1] # "0"
        /\ Atoi(SubSeq(b, 1, sp - 1)) = [ok |-> TRUE, n |-> Len(unframed)]
        /\ SubSeq(b, sp + 1, Len(b)) = unframed
        /\ Len(b) - sp = Len(unframed)

\* The bytes of the first write of the current record are b.
FirstWriteBytes(a, b) ==
    LET rendered == Render(tmpl[a], message[a], hostname).bytes
    IN  IF OnStream(a) /\ tcpFraming = OctetCountedTCPFraming
        THEN OctetCounted(b, rendered)
        ELSE (OnDatagram(a) \/ tcpFraming = TraditionalTCPFraming)
                /\ b = rendered

\* C12: the bytes of the first write of a record, before the write (buf at
\* the call) and after it, are the rendered buffer unchanged on a datagram
\* connection and with traditional framing, and the decimal length of the
\* rendered buffer, a space and the rendered buffer on a stream connection
\* with octet-counted framing.
C12_FirstWriteBytes ==
    \A a \in AdapterIds :
        /\ pc[a] = "write" => FirstWriteBytes(a, buf[a])
        /\ writes[a] # << >> =>
              /\ writes[a][1].by = "Stream"
              /\ FirstWriteBytes(a, writes[a][1].buf)

\* C12 witness: in a process whose framing is octet-counted, the first
\* write of a record on a stream connection was made with a two-digit
\* length before the rendered buffer, and another adapter made the first
\* write of a record on a datagram connection.
C12_Witness ==
    \E a, b \in AdapterIds :
        /\ OnStream(a)
        /\ tcpFraming = OctetCountedTCPFraming
        /\ writes[a] # << >>
        /\ SpaceAt(writes[a][1].buf, 1) = 3
        /\ Len(writes[a][1].buf) = Len(Render(tmpl[a], message[a], hostname).bytes) + 3
        /\ OnDatagram(b)
        /\ writes[b] # << >>
        /\ writes[b][1].buf = Render(tmpl[b], message[b], hostname).bytes

\* The configured framing mode is one of the two modes.
FramingModeKnown ==
    GetEnvDefault(env, "SYSLOG_TCP_FRAMING", TraditionalTCPFraming)
        \in {TraditionalTCPFraming, OctetCountedTCPFraming}

\* C13 (as claimed): an adapter is built only when its transport is
\* registered, the format is rfc5424 or rfc3164 and the configured framing
\* mode is traditional or octet-counted, whatever the kind of the
\* transport.
C13_ConfigErrorsRejected ==
    \A a \in AdapterIds :
        Built(a) =>
            /\ route[a].transport \in Transports
            /\ GetEnvDefault(env, "SYSLOG_FORMAT", << "r", "f", "c", "5", "4", "2", "4" >>)
                  \in {<< "r", "f", "c", "5", "4", "2", "4" >>, << "r", "f", "c", "3", "1", "6", "4" >>}
            /\ FramingModeKnown


\* The index of the first c of b at or after i, Len(b) + 1 when there is
\* none.
RECURSIVE IndexFrom(_, _, _)
IndexFrom(b, c, i) ==
    IF i > Len(b) THEN Len(b) + 1
    ELSE IF b[i] = c THEN i
    ELSE IndexFrom(b, c, i + 1)

\* The k-th of the fields of b that single spaces separate, from i.
RECURSIVE FieldFrom(_, _, _)
FieldFrom(b, k, i) ==
    LET j == IndexFrom(b, " ", i)
    IN  IF k = 1 THEN SubSeq(b, i, j - 1)
        ELSE FieldFrom(b, k - 1, j + 1)

\* The format the adapters of the process were built with.
Format == GetEnvDefault(env, "SYSLOG_FORMAT", << "r", "f", "c", "5", "4", "2", "4" >>)

\* The fields of a rendered RFC 5424 message "<PRI>1 TIMESTAMP HOSTNAME TAG
\* PID - SD MSG" and the tag of an RFC 3164 message "<PRI>TIMESTAMP
\* HOSTNAME TAG[PID]: MSG".
HostnameField(b) == FieldFrom(b, 3, 1)
TagField5424(b) == FieldFrom(b, 4, 1)
PidField(b) == FieldFrom(b, 5, 1)
TagField3164(b) ==
    LET f == FieldFrom(b, 3, 1)
    IN  SubSeq(f, 1, IndexFrom(f, "[", 1) - 1)

\* C14 (as claimed): the fields of a rendered message are within the
\* limits of its format: hostname 255, tag 48 and pid 128 characters for
\* RFC 5424, tag 32 characters for RFC 3164.
C14_FieldsWithinLimits ==
    \A a \in AdapterIds :
        (pc[a] = "write" /\ tcpFraming # OctetCountedTCPFraming) =>
            IF Format = << "r", "f", "c", "5", "4", "2", "4" >>
            THEN /\ Len(HostnameField(buf[a])) <= 255
                 /\ Len(TagField5424(buf[a])) <= 48
                 /\ Len(PidField(buf[a])) <= 128
            ELSE Len(TagField3164(buf[a])) <= 32

\* The PRI part of a rendered message: the characters between "<" and ">".
PriField(b) == SubSeq(b, 2, IndexFrom(b, ">", 1) - 1)

\* The priority Message.Priority is to give a record of source s: user|info
\* for stdout, user|err for stderr, daemon|info for anything else.
PriorityOfSource(s) ==
    CASE s = "stdout" -> << "1", "4" >>
      [] s = "stderr" -> << "1", "1" >>
      [] OTHER -> << "3", "0" >>

\* C15: the priority a record is rendered with is that of its source tag
\* alone: 14 for stdout, 11 for stderr and 30 for every other source, the
\* empty one included, whatever the name of the container, the format and
\* the connection.
C15_PriorityBySource ==
    \A a \in AdapterIds :
        /\ (pc[a] = "write" /\ tcpFraming # OctetCountedTCPFraming) =>
              /\ buf[a][1] = "<"
              /\ PriField(buf[a]) = PriorityOfSource(message[a].Source)
        /\ (Built(a) /\ message[a] # NoMessage) =>
              Priority(message[a]) \in {11, 14, 30}

\* C15 witness: a record of source stderr was rendered, with priority 11.
C15_Witness ==
    \E a \in AdapterIds :
        /\ pc[a] = "write"
        /\ message[a].Source = "stderr"
        /\ PriField(buf[a]) = << "1", "1" >>

C16_Owned ==
    \A a \in AdapterIds :
        Built(a) =>
            /\ conn[a] # NoConn
            /\ conn[a].kind = route[a].transport
            /\ conn[a].id \in 1..nextConn
            /\ \A b \in AdapterIds : (b # a /\ Built(b)) => conn[b].id # conn[a].id
            /\ Cardinality({ k \in 1..Len(dials[a]) : dials[a][k] }) <= 1
            /\ \A k \in 1..Len(writes[a]) :
                  IF writes[a][k].by = "retry"
                  THEN /\ writes[a][k].conn = conn[a].id
                       /\ writes[a][k].conn > writes[a][1].conn
                  ELSE writes[a][k].conn = writes[a][1].conn
            /\ \A k \in 1..Len(writes[a]) :
                  (\A j \in 1..Len(dials[a]) : ~dials[a][j]) =>
                      writes[a][k].conn = conn[a].id

C16_Replaced ==
    \A a \in AdapterIds :
        /\ (Built(a) /\ conn'[a] # conn[a]) =>
              /\ pc[a] = "reconnect"
              /\ dials'[a] = Append(dials[a], TRUE)
              /\ \A j \in 1..Len(dials[a]) : ~dials[a][j]
              /\ conn'[a].id > nextConn
              /\ conn'[a].kind = conn[a].kind
              /\ pc'[a] = "resend"
        /\ (Built(a) /\ dials'[a] = Append(dials[a], FALSE)) => conn'[a] = conn[a]
        /\ (Built(a) /\ Len(writes'[a]) = Len(writes[a]) + 1) =>
              /\ writes'[a][Len(writes'[a])].conn = conn[a].id
              /\ conn'[a] = conn[a]

\* C16: a built adapter owns one connection, of its transport and shared
\* with no other adapter; the connection changes only at a successful dial
\* of reconnect, to a connection never owned before, and at most once per
\* reconnect (the first successful dial ends it); a failed dial leaves it
\* unchanged; and every write goes to the connection owned at the time of
\* the write, so that after a replacement the old one is not written to
\* again.
C16_OneConnectionReplacedOnReconnect == [] C16_Owned /\ [][C16_Replaced]_vars

\* C16 witness: the connection was replaced by the second dial of a
\* reconnect, and the first write of the next record went to the new one.
C16_Witness ==
    \E a \in AdapterIds :
        /\ message[a].id = 2
        /\ Len(sent[a]) = 1
        /\ writes[a] # << >>
        /\ conn[a].id = 2
        /\ writes[a][1].conn = 2

C17_Frozen ==
    (\E a \in AdapterIds : Built(a) /\ ~Stopped(a)) =>
        /\ hostname' = hostname
        /\ tcpFraming' = tcpFraming
        /\ retryCount' = retryCount

\* C17 (as claimed): while an adapter streams, the package variables its
\* Stream reads (hostname, tcpFraming, retryCount) are not changed, by the
\* construction of another adapter in particular.
C17_PackageVariablesFrozen == [][C17_Frozen]_vars

\* Stream panicked in the switch on tcpFraming: a panic before any write of
\* a record that rendered.
FramingPanic(a) ==
    /\ pc[a] = "panicked"
    /\ writes[a] = << >>
    /\ err[a] = Nil

\* C18: whenever a built adapter owns a TCP or TLS connection the package
\* variable tcpFraming is one of the two framing modes, and no Stream has
\* panicked in the switch on tcpFraming.
C18_FramingPanicUnreachable ==
    \A a \in AdapterIds :
        /\ (Built(a) /\ isTCPConnecion(conn[a])) =>
              tcpFraming \in {TraditionalTCPFraming, OctetCountedTCPFraming}
        /\ ~FramingPanic(a)

\* C18 witness: a stream adapter delivered a record by the re-send after a
\* reconnect, in a process where another adapter was built as well.
C18_Witness ==
    \E a, b \in AdapterIds :
        /\ a # b
        /\ Built(b)
        /\ OnStream(a)
        /\ dials[a] # << >>
        /\ LastWriteOk(a)
        /\ pc[a] = "range"

\* The setting of RETRY_COUNT of the process.
RetryCountSetting ==
    CHOOSE s \in RetryCountSettings : s.text = env.vars["RETRY_COUNT"]

\* C20 (as claimed): a RETRY_COUNT that is no integer gives the budget 10,
\* an integer c that is not negative gives c, no integer c gives a budget
\* above max(c, 0), and a retryExp run with the budget of the process
\* invokes its operation at most max(c, 0) + 1 times.
C20_BudgetBounded ==
    LET s == RetryCountSetting
        most == IF s.count > 0 THEN s.count ELSE 0
    IN  /\ ~s.parses => retryCount = Uint(10)
        /\ (s.parses /\ s.count >= 0) => retryCount = Uint(s.count)
        /\ s.parses => UpTo(0, retryCount) /\ ~UintGreater(retryCount, Uint(most))
        /\ (s.parses /\ re.tries = retryCount) => re.calls <= most + 1

C19_Bounded ==
    \A a \in AdapterIds :
        /\ Len(writes[a]) <= 2 \/ UpToNext(Len(writes[a]) - 2, retryCount)
        /\ Cardinality(WritesBy(a, "Stream")) <= 1
        /\ UpToNext(Cardinality(WritesBy(a, "retryTemporary")), retryCount)
        /\ Cardinality(WritesBy(a, "retry")) <= 1
        /\ UpToNext(Len(dials[a]), retryCount)

====
